---- MODULE Spec2Model ----
(***************************************************************************)
(* C32 (Crockford base-32 with checksum) address encoding, modelled from   *)
(* src/address/c32.rs.  Strings are sequences of byte values (a Rust &str  *)
(* is valid UTF-8); byte sequences are sequences of 0..255.  Every public  *)
(* or private function of the file is an operator computed the way the     *)
(* code computes it; a Rust panic (unwrap on Err, slice on a non-boundary, *)
(* index out of range) is the result kind "Panic".                         *)
(***************************************************************************)
EXTENDS Integers, Sequences, FiniteSets, TLC

VARIABLES seed, op, version, data, buflen, str, base, origin, edit, arg, res

vars == <<seed, op, version, data, buflen, str, base, origin, edit, arg, res>>

----------------------------------------------------------------------------
(* Bounds of the explored inputs *)

\* longest byte sequence handed to the raw transform
MaxLen == 3
\* longest data part of an address
MaxDataLen == 1
\* longest string supplied directly by a caller
MaxStrLen == 3
\* how many bytes longer than the minimum an output buffer may be
MaxSlack == 1
\* input lengths over which the capacity formula is compared with ceil(8n/5)
MaxCapLen == 40

ByteVals == {0, 1, 255}
DataVals == {0, 255}
\* the versions of test_addresses, the smallest one, and rejected ones
Versions == {0, 1, 20, 21, 22, 26, 31, 32, 255}
\* '0' '1' 'U' 'Z' 'a' 'o'
InputChars == {48, 49, 85, 90, 97, 111}
\* '!' '1' 'U' 'Z'
MutateChars == {33, 49, 85, 90}
\* U+00E9 as UTF-8
NonAsciiChar == <<195, 169>>

SeqsUpTo(S, n) == UNION {[1 .. k -> S] : k \in 0 .. n}

----------------------------------------------------------------------------
(* Alphabet table *)

C32_CHARACTERS ==
  <<48, 49, 50, 51, 52, 53, 54, 55, 56, 57, 65, 66, 67, 68, 69, 70, 71, 72,
    74, 75, 77, 78, 80, 81, 82, 83, 84, 86, 87, 88, 89, 90>>

\* the table without the lowercase forms of the special characters: line 42
\* of the generator left out
C32_CHARACTERS_MAP_NoLowerSpecials ==
  [i \in 1 .. 128 |->
     LET x == i - 1
         upper == {k \in 1 .. 32 : C32_CHARACTERS[k] = x}
         lower == {k \in 1 .. 32 : C32_CHARACTERS[k] >= 65
                                   /\ C32_CHARACTERS[k] + 32 = x}
     IN  IF upper # {} THEN (CHOOSE k \in upper : TRUE) - 1
         ELSE IF lower # {} THEN (CHOOSE k \in lower : TRUE) - 1
         ELSE IF x = 79 THEN 0
         ELSE IF x = 73 \/ x = 76 THEN 1
         ELSE -1]

\* indexed by ASCII code + 1
C32_CHARACTERS_MAP ==
  <<-1, -1, -1, -1, -1, -1, -1, -1, -1, -1, -1, -1, -1, -1, -1, -1, -1, -1, -1, -1, -1, -1, -1, -1,
    -1, -1, -1, -1, -1, -1, -1, -1, -1, -1, -1, -1, -1, -1, -1, -1, -1, -1, -1, -1, -1, -1, -1, -1,
    0, 1, 2, 3, 4, 5, 6, 7, 8, 9, -1, -1, -1, -1, -1, -1, -1, 10, 11, 12, 13, 14, 15, 16, 17, 1,
    18, 19, 1, 20, 21, 0, 22, 23, 24, 25, 26, -1, 27, 28, 29, 30, 31, -1, -1, -1, -1, -1, -1, 10,
    11, 12, 13, 14, 15, 16, 17, 1, 18, 19, 1, 20, 21, 0, 22, 23, 24, 25, 26, -1, 27, 28, 29, 30,
    31, -1, -1, -1, -1, -1>>

\* C32_CHARACTERS_MAP.get(x as usize) followed by u8::try_from: the index of
\* the character, or -1 when the lookup fails (no entry, or x >= 128)
map_get(x) ==
  IF x >= Len(C32_CHARACTERS_MAP) THEN -1 ELSE C32_CHARACTERS_MAP[x + 1]

\* C32_CHARACTERS[v as usize]
c32_char(v) == C32_CHARACTERS[v + 1]

is_ascii(s) == \A i \in 1 .. Len(s) : s[i] < 128

\* str::is_char_boundary(1) for a valid UTF-8 string of length > 1
is_char_boundary_1(s) ==
  Len(s) = 1 \/ (Len(s) > 1 /\ ~(s[2] >= 128 /\ s[2] < 192))

Reverse(s) == [i \in 1 .. Len(s) |-> s[Len(s) + 1 - i]]

ErrCrockford == [kind |-> "Err", err |-> "InvalidCrockford32"]
Panic(where) == [kind |-> "Panic", at |-> where]

----------------------------------------------------------------------------
(* Raw transform: encode *)

\* the capacity as floor(8n/5), without the (n % 5) allowance
get_max_c32_encode_output_len_Floor(input_len) == (input_len * 8) \div 5

get_max_c32_encode_output_len(input_len) ==
  ((input_len + (input_len % 5)) * 8) \div 5

\* output_buffer[position] = C32_CHARACTERS[value]; position += 1
\* (both indexings are bounds-checked by Rust)
Put(st, value) ==
  IF st.panic THEN st
  ELSE IF value >= Len(C32_CHARACTERS) \/ st.position >= Len(st.buf)
       THEN [st EXCEPT !.panic = TRUE,
                       !.writes = Append(@, st.position),
                       !.idxs = Append(@, value)]
       ELSE [st EXCEPT !.buf[st.position + 1] = c32_char(value),
                       !.position = @ + 1,
                       !.writes = Append(@, st.position),
                       !.idxs = Append(@, value)]

\* one iteration of the packing loop over input_bytes.iter().rev()
PackByte(st, current_value) ==
  LET low_bits_to_take == 5 - st.carry_bits
      low_bits == current_value % (2 ^ low_bits_to_take)
      c32_value == (((low_bits * (2 ^ st.carry_bits)) % 256) + st.carry) % 256
      s1 == Put(st, c32_value)
      cb == (8 + st.carry_bits) - 5
      cy == current_value \div (2 ^ (8 - cb))
  IN  IF cb >= 5
      THEN [Put(s1, cy % 32) EXCEPT !.carry_bits = cb - 5, !.carry = cy \div 32]
      ELSE [s1 EXCEPT !.carry_bits = cb, !.carry = cy]

RECURSIVE PackBytes(_, _, _)
PackBytes(input_bytes, i, st) ==
  IF i = 0 THEN st
  ELSE PackBytes(input_bytes, i - 1, PackByte(st, input_bytes[i]))

\* the packing artifacts are not removed
StripSymbols_Skipped(st) == st

\* while position > 0 && output_buffer[position - 1] == C32_CHARACTERS[0]
RECURSIVE StripSymbols(_)
StripSymbols(st) ==
  IF ~st.panic /\ st.position > 0 /\ st.buf[st.position] = c32_char(0)
  THEN StripSymbols([st EXCEPT !.position = @ - 1])
  ELSE st

\* for current_value in input_bytes.iter() { if 0 { push '0' } else break }
RECURSIVE AddLeadingSymbols(_, _, _)
AddLeadingSymbols(input_bytes, i, st) ==
  IF i > Len(input_bytes) \/ input_bytes[i] # 0 THEN st
  ELSE AddLeadingSymbols(input_bytes, i + 1, Put(st, 0))

c32_encode_to_buffer(input_bytes, output_len) ==
  LET min_len == get_max_c32_encode_output_len(Len(input_bytes))
      st0 == [buf |-> [i \in 1 .. output_len |-> 0], position |-> 0,
              carry |-> 0, carry_bits |-> 0, panic |-> FALSE,
              writes |-> <<>>, idxs |-> <<>>]
      packed == PackBytes(input_bytes, Len(input_bytes), st0)
      last == IF packed.carry_bits > 0 THEN Put(packed, packed.carry) ELSE packed
      stripped == StripSymbols(last)
      st == AddLeadingSymbols(input_bytes, 1, stripped)
  IN  IF output_len < min_len
      THEN [kind |-> "Err", err |-> "Other", buf |-> st0.buf,
            writes |-> <<>>, idxs |-> <<>>]
      ELSE IF st.panic
      THEN [kind |-> "Panic", at |-> "c32_encode_to_buffer", buf |-> st.buf,
            writes |-> st.writes, idxs |-> st.idxs]
      ELSE [kind |-> "Ok", count |-> st.position,
            buf |-> [i \in 1 .. output_len |->
                       IF i <= st.position THEN st.buf[st.position + 1 - i]
                       ELSE st.buf[i]],
            writes |-> st.writes, idxs |-> st.idxs]

c32_encode(input_bytes) ==
  LET capacity == get_max_c32_encode_output_len(Len(input_bytes))
      r == c32_encode_to_buffer(input_bytes, capacity)
  IN  IF r.kind = "Ok"
      THEN [kind |-> "Ok", str |-> SubSeq(r.buf, 1, r.count)]
      ELSE Panic("c32_encode")

----------------------------------------------------------------------------
(* Raw transform: decode *)

\* the accumulation loop over c32_digits (least significant digit first)
RECURSIVE UnpackDigits(_, _, _)
UnpackDigits(c32_digits, i, st) ==
  IF i > Len(c32_digits) THEN st
  ELSE LET carry == (st.carry + c32_digits[i] * (2 ^ st.carry_bits)) % 65536
           carry_bits == st.carry_bits + 5
       IN  UnpackDigits(c32_digits, i + 1,
             IF carry_bits >= 8
             THEN [result |-> Append(st.result, carry % 256),
                   carry |-> carry \div 256, carry_bits |-> carry_bits - 8]
             ELSE [result |-> st.result, carry |-> carry,
                   carry_bits |-> carry_bits])

\* the packing artifacts are not removed
StripBytes_Skipped(result) == result

\* while i > 0 && result[i - 1] == 0 { truncate }
RECURSIVE StripBytes(_)
StripBytes(result) ==
  IF Len(result) > 0 /\ result[Len(result)] = 0
  THEN StripBytes(SubSeq(result, 1, Len(result) - 1))
  ELSE result

\* the leading zero symbols are not restored as zero bytes
AddLeadingBytes_Skipped(c32_digits, i, result) == result

\* for current_value in c32_digits.iter().rev() { if 0 { push 0 } else break }
RECURSIVE AddLeadingBytes(_, _, _)
AddLeadingBytes(c32_digits, i, result) ==
  IF i = 0 \/ c32_digits[i] # 0 THEN result
  ELSE AddLeadingBytes(c32_digits, i - 1, Append(result, 0))

c32_decode_ascii(input_str) ==
  LET c32_digits == [i \in 1 .. Len(input_str) |->
                       map_get(input_str[Len(input_str) + 1 - i])]
      un == UnpackDigits(c32_digits, 1,
                         [result |-> <<>>, carry |-> 0, carry_bits |-> 0])
      pushed == IF un.carry_bits > 0 THEN Append(un.result, un.carry % 256)
                ELSE un.result
      result == AddLeadingBytes(c32_digits, Len(c32_digits), StripBytes(pushed))
  IN  IF \E i \in 1 .. Len(c32_digits) : c32_digits[i] < 0
      THEN ErrCrockford
      ELSE [kind |-> "Ok", bytes |-> Reverse(result)]

c32_decode(input_str) ==
  IF ~is_ascii(input_str) THEN ErrCrockford ELSE c32_decode_ascii(input_str)

----------------------------------------------------------------------------
(* Checksum envelope *)

\* Stand-in for the first 4 bytes of Sha256(Sha256(message)): the digest is an
\* external primitive, so it is a function of the message only, whose value on
\* any given message ranges over DigestPrefixes as the seed varies.
DigestPrefixes ==
  <<(<<0, 0, 0, 0>>), (<<0, 0, 0, 1>>), (<<0, 16, 0, 255>>), (<<164, 111, 248, 0>>),
    (<<1, 0, 0, 0>>), (<<255, 255, 255, 255>>)>>

RECURSIVE Mix(_, _)
Mix(message, i) ==
  IF i = 0 THEN 0 ELSE (Mix(message, i - 1) * 3 + message[i] + i) % 1009

Sha256d(sd, message) ==
  DigestPrefixes[((sd + Mix(message, Len(message))) % Len(DigestPrefixes)) + 1]

\* b[0] | b[1] << 8 | b[2] << 16 | b[3] << 24 as u32, kept as two 16-bit halves
U32LE(b) == [lo |-> b[1] + 256 * b[2], hi |-> b[3] + 256 * b[4]]

\* the version test off by one: version >= 31
c32_check_encode_prefixed_OffByOne(sd, v, bytes, prefix) ==
  LET checksum_buffer == Sha256d(sd, <<v>> \o bytes)
      buffer == bytes \o SubSeq(checksum_buffer, 1, 4)
      capacity == get_max_c32_encode_output_len(Len(buffer)) + 2
      r == c32_encode_to_buffer(buffer, capacity - 2)
  IN  IF v >= 31
      THEN [kind |-> "Err", err |-> "InvalidVersion", version |-> v]
      ELSE IF r.kind = "Ok"
      THEN [kind |-> "Ok",
            str |-> <<prefix, c32_char(v)>> \o SubSeq(r.buf, 1, r.count)]
      ELSE IF r.kind = "Err" THEN [kind |-> "Err", err |-> "Other"]
      ELSE Panic("c32_encode_to_buffer")

c32_check_encode_prefixed(sd, v, bytes, prefix) ==
  LET checksum_buffer == Sha256d(sd, <<v>> \o bytes)
      buffer == bytes \o SubSeq(checksum_buffer, 1, 4)
      capacity == get_max_c32_encode_output_len(Len(buffer)) + 2
      r == c32_encode_to_buffer(buffer, capacity - 2)
  IN  IF v >= 32
      THEN [kind |-> "Err", err |-> "InvalidVersion", version |-> v]
      ELSE IF r.kind = "Ok"
      THEN [kind |-> "Ok",
            str |-> <<prefix, c32_char(v)>> \o SubSeq(r.buf, 1, r.count)]
      ELSE IF r.kind = "Err" THEN [kind |-> "Err", err |-> "Other"]
      ELSE Panic("c32_encode_to_buffer")

\* the comparison stops after the third checksum byte
c32_check_decode_ThreeBytes(sd, check_data_unsanitized) ==
  LET ascii_bytes == check_data_unsanitized
      ver == Head(ascii_bytes)
      body == Tail(ascii_bytes)
      data_sum == c32_decode_ascii(body)
      data_sum_bytes == data_sum.bytes
      n == Len(data_sum_bytes)
      data_bytes == SubSeq(data_sum_bytes, 1, n - 4)
      expected_sum == SubSeq(data_sum_bytes, n - 3, n)
      decoded_version == c32_decode_ascii(<<ver>>)
      computed_sum == Sha256d(sd, decoded_version.bytes \o data_bytes)
      checksum_ok == /\ computed_sum[1] = expected_sum[1]
                     /\ computed_sum[2] = expected_sum[2]
                     /\ computed_sum[3] = expected_sum[3]
  IN  IF ~is_ascii(check_data_unsanitized) THEN ErrCrockford
      ELSE IF Len(check_data_unsanitized) < 2 THEN ErrCrockford
      ELSE IF data_sum.kind # "Ok" THEN data_sum
      ELSE IF n < 4 THEN ErrCrockford
      ELSE IF decoded_version.kind # "Ok" THEN Panic("unwrap")
      ELSE IF ~checksum_ok
      THEN [kind |-> "Err", err |-> "BadChecksum",
            computed |-> U32LE(computed_sum), expected |-> U32LE(expected_sum)]
      ELSE [kind |-> "Ok", version |-> decoded_version.bytes[1],
            data |-> data_bytes]

c32_check_decode(sd, check_data_unsanitized) ==
  LET ascii_bytes == check_data_unsanitized
      ver == Head(ascii_bytes)
      body == Tail(ascii_bytes)
      data_sum == c32_decode_ascii(body)
      data_sum_bytes == data_sum.bytes
      n == Len(data_sum_bytes)
      data_bytes == SubSeq(data_sum_bytes, 1, n - 4)
      expected_sum == SubSeq(data_sum_bytes, n - 3, n)
      decoded_version == c32_decode_ascii(<<ver>>)
      computed_sum == Sha256d(sd, decoded_version.bytes \o data_bytes)
      checksum_ok == /\ computed_sum[1] = expected_sum[1]
                     /\ computed_sum[2] = expected_sum[2]
                     /\ computed_sum[3] = expected_sum[3]
                     /\ computed_sum[4] = expected_sum[4]
  IN  IF ~is_ascii(check_data_unsanitized) THEN ErrCrockford
      ELSE IF Len(check_data_unsanitized) < 2 THEN ErrCrockford
      ELSE IF data_sum.kind # "Ok" THEN data_sum
      ELSE IF n < 4 THEN ErrCrockford
      ELSE IF decoded_version.kind # "Ok" THEN Panic("unwrap")
      ELSE IF ~checksum_ok
      THEN [kind |-> "Err", err |-> "BadChecksum",
            computed |-> U32LE(computed_sum), expected |-> U32LE(expected_sum)]
      ELSE [kind |-> "Ok", version |-> decoded_version.bytes[1],
            data |-> data_bytes]

----------------------------------------------------------------------------
(* Address facade *)

\* the length test off by one: len <= 6
c32_address_decode_OffByOne(sd, c32_address_str) ==
  IF Len(c32_address_str) <= 6 THEN ErrCrockford
  ELSE IF ~is_char_boundary_1(c32_address_str) THEN Panic("slice")
  ELSE c32_check_decode(sd, Tail(c32_address_str))

c32_address_decode(sd, c32_address_str) ==
  IF Len(c32_address_str) <= 5 THEN ErrCrockford
  ELSE IF ~is_char_boundary_1(c32_address_str) THEN Panic("slice")
  ELSE c32_check_decode(sd, Tail(c32_address_str))

\* b'S'
AddressPrefix == 83

c32_address(sd, v, bytes) == c32_check_encode_prefixed(sd, v, bytes, AddressPrefix)

----------------------------------------------------------------------------
(* Callers: each run takes one input drawn from a bounded set, then applies *)
(* the operations to it and to what they return                             *)

NoResult == [kind |-> "None"]

Init ==
  /\ seed \in 0 .. (Len(DigestPrefixes) - 1)
  /\ op = "init"
  /\ version = 0
  /\ data = <<>>
  /\ buflen = 0
  /\ str = <<>>
  /\ base = <<>>
  /\ origin = "none"
  /\ edit = "none"
  /\ arg = <<>>
  /\ res = NoResult

\* a caller supplies a string
Input(s) ==
  /\ op = "init"
  /\ op' = "input"
  /\ str' = s
  /\ base' = s
  /\ origin' = "input"
  /\ UNCHANGED <<seed, version, data, buflen, edit, arg, res>>

\* c32_encode(&bytes)
DoEncode(bytes) ==
  LET r == c32_encode(bytes)
      out == IF r.kind = "Ok" THEN r.str ELSE <<>>
  IN  /\ op = "init"
      /\ op' = "c32_encode"
      /\ data' = bytes
      /\ str' = out
      /\ base' = out
      /\ origin' = "c32_encode"
      /\ res' = r
      /\ UNCHANGED <<seed, version, buflen, edit, arg>>

\* c32_encode_to_buffer(&bytes, &mut [0; n])
DoEncodeToBuffer(bytes, n) ==
  /\ op = "init"
  /\ op' = "c32_encode_to_buffer"
  /\ data' = bytes
  /\ buflen' = n
  /\ res' = c32_encode_to_buffer(bytes, n)
  /\ UNCHANGED <<seed, version, str, base, origin, edit, arg>>

\* c32_decode(&str)
DoDecode ==
  /\ origin \in {"input", "c32_encode"}
  /\ op' = "c32_decode"
  /\ arg' = str
  /\ res' = c32_decode(str)
  /\ UNCHANGED <<seed, version, data, buflen, str, base, origin, edit>>

\* c32_encode of the bytes the last c32_decode returned
DoReencode ==
  /\ op = "c32_decode"
  /\ res.kind = "Ok"
  /\ LET r == c32_encode(res.bytes)
         out == IF r.kind = "Ok" THEN r.str ELSE <<>>
     IN  /\ op' = "c32_encode"
         /\ data' = res.bytes
         /\ str' = out
         /\ base' = out
         /\ origin' = "c32_decode"
         /\ edit' = "none"
         /\ res' = r
  /\ UNCHANGED <<seed, version, buflen, arg>>

\* c32_address(v, &bytes)
DoAddress(v, bytes) ==
  LET r == c32_address(seed, v, bytes)
      out == IF r.kind = "Ok" THEN r.str ELSE <<>>
  IN  /\ op = "init"
      /\ op' = "c32_address"
      /\ version' = v
      /\ data' = bytes
      /\ str' = out
      /\ base' = out
      /\ origin' = IF r.kind = "Ok" THEN "c32_address" ELSE "none"
      /\ res' = r
      /\ UNCHANGED <<seed, buflen, edit, arg>>

\* c32_address_decode(&str)
DoAddressDecode ==
  /\ origin \in {"input", "c32_address"}
  /\ op' = "c32_address_decode"
  /\ arg' = str
  /\ res' = c32_address_decode(seed, str)
  /\ UNCHANGED <<seed, version, data, buflen, str, base, origin, edit>>

\* c32_check_decode(&str[drop..]), as c32_address_decode calls it with drop = 1
DoCheckDecode(drop) ==
  /\ origin \in {"input", "c32_address"}
  /\ drop = 0 \/ (Len(str) >= 1 /\ is_char_boundary_1(str))
  /\ op' = "c32_check_decode"
  /\ arg' = SubSeq(str, 1 + drop, Len(str))
  /\ res' = c32_check_decode(seed, arg')
  /\ UNCHANGED <<seed, version, data, buflen, str, base, origin, edit>>

\* a transcription error: one character of an encoder's output becomes
\* another character (one byte, or the two bytes of a non-ASCII character)
Mutate(i, repl) ==
  /\ origin \in {"c32_encode", "c32_address"}
  /\ edit = "none"
  /\ i \in 1 .. Len(str)
  /\ repl # <<str[i]>>
  /\ op' = "mutate"
  /\ str' = SubSeq(str, 1, i - 1) \o repl \o SubSeq(str, i + 1, Len(str))
  /\ edit' = "mutated"
  /\ arg' = <<>>
  /\ res' = NoResult
  /\ UNCHANGED <<seed, version, data, buflen, base, origin>>

Styles ==
  [lower : BOOLEAN, zero : {0, 79, 111}, one : {0, 73, 76, 105, 108}]

\* the respelling of one character: lowercase for a letter, 'O'/'o' for a
\* character of index 0, 'L'/'l'/'I'/'i' for a character of index 1
RespellChar(c, style) ==
  IF map_get(c) = 0 /\ style.zero # 0 THEN style.zero
  ELSE IF map_get(c) = 1 /\ style.one # 0 THEN style.one
  ELSE IF style.lower /\ c >= 65 /\ c <= 90 THEN c + 32
  ELSE c

\* an encoder's output is respelled at position i, or everywhere when i = 0
Respell(i, style) ==
  /\ origin \in {"c32_encode", "c32_address"}
  /\ edit = "none"
  /\ i \in 0 .. Len(str)
  /\ LET t == [k \in 1 .. Len(str) |->
                 IF i = 0 \/ i = k THEN RespellChar(str[k], style) ELSE str[k]]
     IN  /\ t # str
         /\ str' = t
  /\ op' = "respell"
  /\ edit' = "respelled"
  /\ arg' = <<>>
  /\ res' = NoResult
  /\ UNCHANGED <<seed, version, data, buflen, base, origin>>

Next ==
  \/ \E s \in SeqsUpTo(InputChars, MaxStrLen) : Input(s)
  \/ \E b \in SeqsUpTo(ByteVals, MaxLen) : DoEncode(b)
  \/ \E b \in SeqsUpTo(ByteVals, MaxLen) :
       \E n \in 0 .. (get_max_c32_encode_output_len(Len(b)) + MaxSlack) :
         DoEncodeToBuffer(b, n)
  \/ DoDecode
  \/ DoReencode
  \/ \E v \in Versions : \E b \in SeqsUpTo(DataVals, MaxDataLen) : DoAddress(v, b)
  \/ DoAddressDecode
  \/ \E drop \in {0, 1} : DoCheckDecode(drop)
  \/ \E i \in 1 .. Len(str) :
       \E repl \in {<<c>> : c \in MutateChars} \cup {NonAsciiChar} : Mutate(i, repl)
  \/ \E i \in 0 .. Len(str) : \E style \in Styles : Respell(i, style)

Spec == Init /\ [][Next]_vars

----------------------------------------------------------------------------
(* Reference definitions used by the properties *)

CeilDiv(a, b) == (a + b - 1) \div b

AllValid(s) == \A i \in 1 .. Len(s) : map_get(s[i]) >= 0

\* every character replaced by the alphabet symbol of its index
Canonical(s) == [i \in 1 .. Len(s) |-> C32_CHARACTERS[map_get(s[i]) + 1]]

RECURSIVE LeadingCount(_, _, _)
LeadingCount(s, z, i) ==
  IF i > Len(s) \/ s[i] # z THEN 0 ELSE 1 + LeadingCount(s, z, i + 1)

\* the bits of a byte sequence, most significant first
RECURSIVE BitsOf(_)
BitsOf(b) ==
  IF b = <<>> THEN <<>>
  ELSE [k \in 1 .. 8 |-> (Head(b) \div (2 ^ (8 - k))) % 2] \o BitsOf(Tail(b))

RECURSIVE StripZeroBits(_)
StripZeroBits(bits) ==
  IF bits # <<>> /\ Head(bits) = 0 THEN StripZeroBits(Tail(bits)) ELSE bits

\* the minimal base-32 digits, most significant first, of the integer whose
\* binary digits are bits (none for the value 0)
Base32Digits(bits) ==
  LET sig == StripZeroBits(bits)
      n == CeilDiv(Len(sig), 5)
      padded == [k \in 1 .. (5 * n - Len(sig)) |-> 0] \o sig
  IN  [d \in 1 .. n |->
         16 * padded[5 * d - 4] + 8 * padded[5 * d - 3] + 4 * padded[5 * d - 2]
           + 2 * padded[5 * d - 1] + padded[5 * d]]

RefEncode(b) ==
  LET digits == Base32Digits(BitsOf(b))
  IN  [k \in 1 .. LeadingCount(b, 0, 1) |-> 48]
        \o [d \in 1 .. Len(digits) |-> C32_CHARACTERS[digits[d] + 1]]

ProbeChars == {48, 49, 90, 97, 111}
Probes ==
  {<<>>} \cup {<<c>> : c \in ProbeChars}
         \cup {<<c, d>> : c \in ProbeChars, d \in ProbeChars}

\* the decoded body of an envelope string, its payload and its checksum bytes
EnvBody(s) == c32_decode_ascii(Tail(s))
EnvPayload(s) == SubSeq(EnvBody(s).bytes, 1, Len(EnvBody(s).bytes) - 4)
EnvSum(s) ==
  SubSeq(EnvBody(s).bytes, Len(EnvBody(s).bytes) - 3, Len(EnvBody(s).bytes))
EnvWellFormed(s) ==
  /\ is_ascii(s)
  /\ Len(s) >= 2
  /\ map_get(s[1]) >= 0
  /\ EnvBody(s).kind = "Ok"
  /\ Len(EnvBody(s).bytes) >= 4
EnvDigest(s) == Sha256d(seed, <<map_get(s[1])>> \o EnvPayload(s))
LittleEndian(b) == [lo |-> b[1] + b[2] * 256, hi |-> b[3] + b[4] * 256]

----------------------------------------------------------------------------
(* Properties *)

\* C1: an address produced by c32_address for a version in 0..31 is accepted
\* by c32_address_decode, which returns exactly the version and the data that
\* were encoded; c32_address itself succeeds for every such version.
AddressRoundTrip ==
  /\ (op = "c32_address" /\ version < 32) => res.kind = "Ok"
  /\ (op = "c32_address_decode" /\ origin = "c32_address" /\ edit = "none")
       => res = [kind |-> "Ok", version |-> version, data |-> data]

AddressRoundTripWitness ==
  /\ op = "c32_address_decode" /\ origin = "c32_address" /\ edit = "none"
  /\ res.kind = "Ok"
  /\ data = <<>>
  /\ Len(str) = 6

\* C2: c32_decode of the string c32_encode returned for b returns Ok(b).
RawRoundTrip ==
  (op = "c32_decode" /\ origin = "c32_encode" /\ edit = "none")
    => res = [kind |-> "Ok", bytes |-> data]

RawRoundTripWitness ==
  /\ op = "c32_decode" /\ origin = "c32_encode" /\ edit = "none"
  /\ res.kind = "Ok"
  /\ data = <<0, 255, 0>>

\* C3: c32_check_decode returns Ok((v, p)) only when the last 4 bytes of the
\* decoded body are the digest prefix of v || p, v being the index of the
\* version symbol and p the body without its last 4 bytes; when they differ
\* it returns BadChecksum(computed, expected), both read as little-endian.
ChecksumGate ==
  op = "c32_check_decode" =>
    /\ res.kind = "Ok" =>
         /\ EnvWellFormed(arg)
         /\ res.version = map_get(arg[1])
         /\ res.data = EnvPayload(arg)
         /\ EnvSum(arg) = EnvDigest(arg)
    /\ (EnvWellFormed(arg) /\ EnvSum(arg) # EnvDigest(arg)) =>
         res = [kind |-> "Err", err |-> "BadChecksum",
                computed |-> LittleEndian(EnvDigest(arg)),
                expected |-> LittleEndian(EnvSum(arg))]

ChecksumGateWitness ==
  /\ op = "c32_check_decode"
  /\ origin = "c32_address" /\ edit = "mutated"
  /\ res.kind = "Err" /\ res.err = "BadChecksum"
  /\ res.computed.lo = res.expected.lo
  /\ res.computed.hi # res.expected.hi

\* C4: an address that c32_address_decode accepts decodes to the same
\* (version, data) after any respelling (lowercase letters, 'O'/'o' for an
\* index-0 character, 'L'/'l'/'I'/'i' for an index-1 character).
NormalizationInvariance ==
  (op = "c32_address_decode" /\ edit = "respelled"
     /\ c32_address_decode(seed, base).kind = "Ok")
    => res = c32_address_decode(seed, base)

NormalizationWitness ==
  /\ op = "c32_address_decode" /\ edit = "respelled"
  /\ res.kind = "Ok"
  /\ version = 0
  /\ str[1] = 115
  /\ str[2] = 79
  /\ \E i \in 3 .. Len(str) : str[i] \in {73, 76, 105, 108}

\* C5: c32_address_decode of an ASCII string longer than 5 with a character
\* after the prefix that has no entry in the lookup table returns
\* Err(InvalidCrockford32).
InvalidSymbolRejected ==
  (op = "c32_address_decode" /\ is_ascii(arg) /\ Len(arg) > 5
     /\ \E i \in 2 .. Len(arg) : map_get(arg[i]) < 0)
    => res = ErrCrockford

\* C6: c32_address_decode of a string with a byte >= 128 at any position
\* returns Err(InvalidCrockford32).
NonAsciiRejected ==
  (op = "c32_address_decode" /\ ~is_ascii(arg)) => res = ErrCrockford

\* C7: c32_address returns Err(InvalidVersion(version)) and no string for a
\* version in 32..255; for a version in 0..31 it returns a string that starts
\* with 'S' followed by the alphabet symbol of the version.
VersionRejection ==
  op = "c32_address" =>
    /\ IF version >= 32
       THEN /\ res = [kind |-> "Err", err |-> "InvalidVersion", version |-> version]
            /\ str = <<>>
       ELSE /\ res.kind = "Ok"
            /\ res.str[1] = 83
            /\ res.str[2] = C32_CHARACTERS[version + 1]
    /\ \A v \in 0 .. 255 :
         LET r == c32_address(seed, v, data)
         IN  IF v >= 32
             THEN r = [kind |-> "Err", err |-> "InvalidVersion", version |-> v]
             ELSE r.kind = "Ok" /\ r.str[1] = 83 /\ r.str[2] = C32_CHARACTERS[v + 1]

VersionRejectionWitness ==
  op = "c32_address" /\ version = 32 /\ res.kind = "Err" /\ data # <<>>

\* C8: c32_encode(b) is one '0' per leading zero byte of b followed by the
\* minimal base-32 digits of the big-endian value of b; its leading '0'
\* symbols are as many as the leading zero bytes of b.
EncodeReference ==
  (op = "c32_encode" /\ origin = "c32_encode") =>
    /\ res = [kind |-> "Ok", str |-> RefEncode(data)]
    /\ LeadingCount(res.str, 48, 1) = LeadingCount(data, 0, 1)
    /\ (data = <<>> => res.str = <<>>)

EncodeReferenceWitness ==
  /\ op = "c32_encode" /\ origin = "c32_encode"
  /\ data = <<0, 0, 1>>
  /\ res.kind = "Ok" /\ res.str = <<48, 48, 49>>

\* C9: c32_encode_to_buffer returns an error and writes nothing when the
\* buffer is shorter than get_max_c32_encode_output_len(n); otherwise every
\* position it writes is inside the buffer, every alphabet index is below 32
\* and the count it returns is at most ceil(8n/5), which the capacity covers.
BufferSafety ==
  op = "c32_encode_to_buffer" =>
    /\ IF buflen < get_max_c32_encode_output_len(Len(data))
       THEN /\ res.kind = "Err"
            /\ res.writes = <<>>
            /\ res.buf = [i \in 1 .. buflen |-> 0]
       ELSE /\ res.kind = "Ok"
            /\ \A k \in 1 .. Len(res.writes) : res.writes[k] < buflen
            /\ \A k \in 1 .. Len(res.idxs) : res.idxs[k] < 32
            /\ res.count <= CeilDiv(8 * Len(data), 5)
    /\ \A n \in 0 .. MaxCapLen :
         get_max_c32_encode_output_len(n) >= CeilDiv(8 * n, 5)

BufferSafetyWitness ==
  /\ op = "c32_encode_to_buffer"
  /\ Len(data) = 3
  /\ buflen = get_max_c32_encode_output_len(3)
  /\ res.kind = "Ok"
  /\ res.count = 5

====
